---- MODULE Spec2Model ----
(***************************************************************************)
(* Model of the Tinkerbell Workflow reconciler                             *)
(* (tink/controllers/workflow/controller.go).                              *)
(*                                                                         *)
(* One Workflow resource lives in the resource store; the remote workflow  *)
(* service holds the executions created for it.  Reconcile is modelled     *)
(* call by call: every store or remote round trip is one step that either  *)
(* succeeds or fails, and the environment (the remote service, the user    *)
(* requesting deletion, the store's garbage collection, the work queue)    *)
(* moves between the steps.                                                *)
(***************************************************************************)
EXTENDS Integers, Sequences, FiniteSets, TLC

\* Number of remote executions the remote service accepts before every
\* further Create fails.
MaxCreate == 2

\* ctrl.Result{RequeueAfter: 1 * time.Minute}, in seconds.
RequeueDelay == 60

\* workflow.State values of the remote service (tink protos).
STATE_PENDING == 0
STATE_RUNNING == 1
STATE_FAILED == 2
STATE_TIMEOUT == 3
STATE_SUCCESS == 4

States == {STATE_PENDING, STATE_RUNNING, STATE_FAILED, STATE_TIMEOUT, STATE_SUCCESS}

\* A remote execution that does not exist (never created, or removed).
Absent == -1

\* The empty TinkID annotation ("").
NoID == 0

IDs == 1..MaxCreate

VARIABLES
    stored,        \* the Workflow resource as the store holds it
    remote,        \* remote service: id -> state of the execution, or Absent
    created,       \* number of Create calls that returned successfully
    pending,       \* a reconcile request for the resource is queued
    pc,            \* position of the in-flight Reconcile ("idle": none)
    w,             \* Reconcile's local copy of the resource
    base,          \* status of w.DeepCopy(), the basis of the status patch
    workflowID,    \* reconcileNormal's workflowID
    tinkWorkflow,  \* the snapshot WorkflowClient.Get returned
    result,        \* what Reconcile returns: requeue delay and error
    calls,         \* history: the store and remote calls of this invocation
    loadedTinkID,  \* history: the TinkID of the resource as Reconcile loaded it
    createArgs,    \* history: arguments of the last Create call
    branch         \* history: the path Reconcile took for the resource

vars == <<stored, remote, created, pending, pc, w, base, workflowID,
          tinkWorkflow, result, calls, loadedTinkID, createArgs, branch>>

----------------------------------------------------------------------------
\* Data shapes

EmptyStatus ==
    [State |-> "", Data |-> 0, Metadata |-> 0, Actions |-> <<>>, Events |-> <<>>]

\* finalizer: the Workflow finalizer is in the finalizer list; otherFinalizer:
\* so is a finalizer of another controller.
NewWorkflow ==
    [exists |-> TRUE, finalizer |-> FALSE, otherFinalizer |-> FALSE,
     deletion |-> FALSE, tinkID |-> NoID, status |-> EmptyStatus]

NoWorkflow == [Id |-> NoID, Data |-> 0]

OkResult == [requeueAfter |-> 0, err |-> FALSE]
ErrResult == [requeueAfter |-> 0, err |-> TRUE]
RequeueResult == [requeueAfter |-> RequeueDelay, err |-> FALSE]

\* External ids of the Template and the Hardware the spec refers to.
TemplateID == "T1"
HardwareID == "H1"

\* workflow.State.String()
StateString(s) ==
    CASE s = STATE_PENDING -> "STATE_PENDING"
      [] s = STATE_RUNNING -> "STATE_RUNNING"
      [] s = STATE_FAILED -> "STATE_FAILED"
      [] s = STATE_TIMEOUT -> "STATE_TIMEOUT"
      [] s = STATE_SUCCESS -> "STATE_SUCCESS"

\* What the remote service holds for execution id: the data rendered from the
\* template and the metadata are the same for every execution of one resource.
RemoteData(id) == 100
RemoteMetadata(id) == 200

RemoteActions(id) ==
    << [name |-> "os-install", task_name |-> "provision", image |-> "img",
        timeout |-> 90, command |-> <<"run">>, on_timeout |-> <<>>,
        on_failure |-> <<>>, worker_id |-> HardwareID, volumes |-> <<"/dev">>,
        environment |-> <<"K=V">>] >>

RemoteEvent(s, at) ==
    [action_name |-> "os-install", task_name |-> "provision",
     action_status |-> s, seconds |-> at, message |-> "msg",
     worker_id |-> HardwareID, created_at |-> at]

\* The event log of an execution in state s: the action is reported once a
\* worker has picked it up.
RemoteEvents(s) ==
    IF s = STATE_PENDING THEN <<>> ELSE << RemoteEvent(STATE_RUNNING, 1) >>

\* The mapping of one remote action to the status shape.
ToStatusAction(a) ==
    [Name |-> a.name, TaskName |-> a.task_name, Image |-> a.image,
     Timeout |-> a.timeout, Command |-> a.command, OnTimeout |-> a.on_timeout,
     OnFailure |-> a.on_failure, WorkerID |-> a.worker_id,
     Volumes |-> a.volumes, Environment |-> a.environment]

StatusActions(actions) == [i \in 1..Len(actions) |-> ToStatusAction(actions[i])]

\* The mapping of one remote event to the status shape.
ToStatusEvent(e) ==
    [ActionName |-> e.action_name, TaskName |-> e.task_name,
     ActionStatus |-> StateString(e.action_status), Seconds |-> e.seconds,
     Message |-> e.message, WorkerID |-> e.worker_id, CreatedAt |-> e.created_at]

StatusEvents(events) == [i \in 1..Len(events) |-> ToStatusEvent(events[i])]

----------------------------------------------------------------------------
\* The store's patch primitive as the reconciler uses it

\* client.MergeFrom(old) + Client.Patch: the fields of the object that differ
\* from the copy taken before the change are written over the stored ones,
\* whatever the store holds by then (the patch carries no resource version);
\* a list, as the finalizer list, is written as a whole.  The status
\* sub-resource is not written by this call.
MergePatch(cur, modified, old) ==
    LET finalizers(obj) == <<obj.finalizer, obj.otherFinalizer>>
        listChanged == finalizers(modified) # finalizers(old)
    IN  [cur EXCEPT
            !.finalizer = IF listChanged THEN modified.finalizer ELSE @,
            !.otherFinalizer = IF listChanged THEN modified.otherFinalizer ELSE @,
            !.tinkID = IF modified.tinkID # old.tinkID THEN modified.tinkID ELSE @]

\* client.MergeFrom(old) + Client.Status().Patch: the same for the status.
MergeStatusPatch(cur, modified, old) ==
    [f \in DOMAIN cur |-> IF modified[f] # old[f] THEN modified[f] ELSE cur[f]]

Call(op, res) == [op |-> op, res |-> res]

Called(op) == \E i \in 1..Len(calls) : calls[i].op = op

CalledWith(op, res) == \E i \in 1..Len(calls) : calls[i] = Call(op, res)

RemoteExists(id) == id \in IDs /\ remote[id] # Absent

----------------------------------------------------------------------------
Init ==
    /\ stored = NewWorkflow
    /\ remote = [id \in IDs |-> Absent]
    /\ created = 0
    /\ pending = TRUE
    /\ pc = "idle"
    /\ w = NewWorkflow
    /\ base = EmptyStatus
    /\ workflowID = NoID
    /\ tinkWorkflow = NoWorkflow
    /\ result = OkResult
    /\ calls = <<>>
    /\ loadedTinkID = NoID
    /\ createArgs = <<>>
    /\ branch = "none"

----------------------------------------------------------------------------
\* Decisions the reconciler takes between two calls

\* Variant: the recorded TinkID is not consulted.
NeedsCreateAlways(id) == TRUE

\* reconcileNormal: a remote execution is created only for an empty TinkID.
NeedsCreate(id) == id = NoID

\* Variant: a remote execution is created in every pass.
NormalEntryAlwaysCreate(obj) == "getHardware"

\* reconcileNormal up to its first call.
NormalEntry(obj) == IF NeedsCreate(obj.tinkID) THEN "getHardware" ELSE "get"

\* reconcileDelete up to its first call: Delete is called for a recorded id.
DeleteEntry(obj) == IF obj.tinkID # NoID THEN "delete" ELSE "removeFinalizer"

\* Variant: the error of EnsureFinalizer is dropped.
ReconcileDispatchIgnoreErr(err, obj) ==
    IF obj.deletion THEN DeleteEntry(obj) ELSE NormalEntry(obj)

\* Variant: the deletion timestamp is not looked at.
ReconcileDispatchNoDelete(err, obj) == IF err THEN "done" ELSE NormalEntry(obj)

\* Variant: the two paths are taken the wrong way round.
ReconcileDispatchSwapped(err, obj) ==
    IF err THEN "done"
    ELSE IF obj.deletion THEN NormalEntry(obj)
    ELSE DeleteEntry(obj)

\* Reconcile after EnsureFinalizer returned: an error is returned at once, a
\* resource with a deletion timestamp takes the delete path, any other the
\* normal path.
ReconcileDispatch(err, obj) ==
    IF err THEN "done"
    ELSE IF obj.deletion THEN DeleteEntry(obj)
    ELSE NormalEntry(obj)

\* Variant: the error of Delete is only logged.
AfterDeleteIgnoreErr(res) == "removeFinalizer"

\* Variant: Not-Found is an error like any other.
AfterDeleteStrict(res) == IF res = "ok" THEN "removeFinalizer" ELSE "done"

\* reconcileDelete after Delete returned: Not-Found counts as success.
AfterDelete(res) == IF res \in {"ok", "notfound"} THEN "removeFinalizer" ELSE "done"

\* Variant: an early return skips the status patch.
AfterFetchErrorNoPatch == "done"

\* reconcileStatus: the deferred status patch runs on every exit path.
AfterFetchError == "statusPatch"

\* Variant: every state the execution cannot leave ends the requeueing.
StatusResultTerminal(state) ==
    IF state \in {STATE_PENDING, STATE_RUNNING} THEN RequeueResult ELSE OkResult

\* Variant: the requeue is requested whatever the state.
StatusResultAlwaysRequeue(state) == RequeueResult

\* reconcileStatus: what is returned once the state was fetched.
StatusResult(state) == IF state # STATE_SUCCESS THEN RequeueResult ELSE OkResult

\* Variant: Not-Found is returned like any other error of the load.
LoadErrResultStrict(notFound) == ErrResult

\* Reconcile when the load failed: a resource that is not found is no error.
LoadErrResult(notFound) == IF notFound THEN OkResult ELSE ErrResult

\* Variant: the two ids are passed in the order of their lookup.
CreateArgsSwapped(t, hw) == <<hw, t>>

\* createWorkflow: the arguments of Create, template id first.
CreateArgs(t, hw) == <<t, hw>>

\* Reconcile: which path it entered, if any, for the resource as it held it
\* when it looked at the deletion timestamp.
Branch(next, obj) ==
    IF next = "done" THEN "none" ELSE IF obj.deletion THEN "delete" ELSE "normal"

Record(op, res) == calls' = Append(calls, Call(op, res))

----------------------------------------------------------------------------
\* Reconcile, call by call

\* Reconcile: the resource is loaded from the store.
ReconcileGetOK ==
    /\ pc = "idle" /\ pending /\ stored.exists
    /\ pending' = FALSE
    /\ w' = stored
    /\ loadedTinkID' = stored.tinkID
    /\ Record("Load", "ok")
    /\ pc' = "ensureFinalizer"
    /\ UNCHANGED <<stored, remote, created, base, workflowID,
                   tinkWorkflow, result, createArgs, branch>>

\* Reconcile: the store reports the resource as not found.
ReconcileGetNotFound ==
    /\ pc = "idle" /\ pending /\ ~stored.exists
    /\ pending' = FALSE
    /\ Record("Load", "notfound")
    /\ result' = LoadErrResult(TRUE)
    /\ pc' = "done"
    /\ UNCHANGED <<stored, remote, created, w, base, workflowID,
                   tinkWorkflow, loadedTinkID, createArgs, branch>>

\* Reconcile: loading the resource fails with another error.
ReconcileGetErr ==
    /\ pc = "idle" /\ pending
    /\ pending' = FALSE
    /\ Record("Load", "error")
    /\ result' = LoadErrResult(FALSE)
    /\ pc' = "done"
    /\ UNCHANGED <<stored, remote, created, w, base, workflowID,
                   tinkWorkflow, loadedTinkID, createArgs, branch>>

\* common.EnsureFinalizer: the marker is already on the resource.
EnsureFinalizerPresent ==
    /\ pc = "ensureFinalizer" /\ w.finalizer
    /\ pc' = ReconcileDispatch(FALSE, w)
    /\ workflowID' = w.tinkID
    /\ branch' = Branch(pc', w)
    /\ UNCHANGED <<stored, remote, created, pending, w, base,
                   tinkWorkflow, result, calls, loadedTinkID, createArgs>>

\* common.EnsureFinalizer: the marker is added and persisted.
EnsureFinalizerOK ==
    /\ pc = "ensureFinalizer" /\ ~w.finalizer /\ stored.exists
    /\ stored' = MergePatch(stored, [w EXCEPT !.finalizer = TRUE], w)
    /\ w' = stored'
    /\ pending' = (pending \/ stored' # stored)
    /\ Record("PatchFinalizer", "ok")
    /\ pc' = ReconcileDispatch(FALSE, w')
    /\ workflowID' = w'.tinkID
    /\ branch' = Branch(pc', w')
    /\ UNCHANGED <<remote, created, base, tinkWorkflow, result,
                   loadedTinkID, createArgs>>

\* common.EnsureFinalizer: persisting the marker fails.
EnsureFinalizerErr ==
    /\ pc = "ensureFinalizer" /\ ~w.finalizer
    /\ w' = [w EXCEPT !.finalizer = TRUE]
    /\ Record("PatchFinalizer", "error")
    /\ pc' = ReconcileDispatch(TRUE, w')
    /\ workflowID' = w'.tinkID
    /\ branch' = Branch(pc', w')
    /\ result' = IF pc' = "done" THEN ErrResult ELSE result
    /\ UNCHANGED <<stored, remote, created, pending, base,
                   tinkWorkflow, loadedTinkID, createArgs>>

\* createWorkflow: the Hardware is loaded.
GetHardwareOK ==
    /\ pc = "getHardware"
    /\ Record("GetHardware", "ok")
    /\ pc' = "getTemplate"
    /\ UNCHANGED <<stored, remote, created, pending, w, base, workflowID,
                   tinkWorkflow, result, loadedTinkID, createArgs, branch>>

\* createWorkflow: the Hardware cannot be loaded.
GetHardwareErr ==
    /\ pc = "getHardware"
    /\ Record("GetHardware", "error")
    /\ result' = ErrResult
    /\ pc' = "done"
    /\ UNCHANGED <<stored, remote, created, pending, w, base, workflowID,
                   tinkWorkflow, loadedTinkID, createArgs, branch>>

\* createWorkflow: the Template is loaded.
GetTemplateOK ==
    /\ pc = "getTemplate"
    /\ Record("GetTemplate", "ok")
    /\ pc' = "create"
    /\ UNCHANGED <<stored, remote, created, pending, w, base, workflowID,
                   tinkWorkflow, result, loadedTinkID, createArgs, branch>>

\* createWorkflow: the Template cannot be loaded.
GetTemplateErr ==
    /\ pc = "getTemplate"
    /\ Record("GetTemplate", "error")
    /\ result' = ErrResult
    /\ pc' = "done"
    /\ UNCHANGED <<stored, remote, created, pending, w, base, workflowID,
                   tinkWorkflow, loadedTinkID, createArgs, branch>>

\* createWorkflow: Create returns the id of a new remote execution.
CreateOK ==
    /\ pc = "create" /\ created < MaxCreate
    /\ created' = created + 1
    /\ remote' = [remote EXCEPT ![created + 1] = STATE_PENDING]
    /\ createArgs' = CreateArgs(TemplateID, HardwareID)
    /\ workflowID' = created + 1
    /\ Record("Create", "ok")
    /\ pc' = "get"
    /\ UNCHANGED <<stored, pending, w, base, tinkWorkflow, result,
                   loadedTinkID, branch>>

\* createWorkflow: Create fails.
CreateErr ==
    /\ pc = "create"
    /\ createArgs' = CreateArgs(TemplateID, HardwareID)
    /\ Record("Create", "error")
    /\ result' = ErrResult
    /\ pc' = "done"
    /\ UNCHANGED <<stored, remote, created, pending, w, base,
                   workflowID, tinkWorkflow, loadedTinkID, branch>>

\* reconcileNormal: Get returns the remote execution.
GetOK ==
    /\ pc = "get" /\ RemoteExists(workflowID)
    /\ tinkWorkflow' = [Id |-> workflowID, Data |-> RemoteData(workflowID)]
    /\ Record("Get", "ok")
    /\ pc' = "patchTinkID"
    /\ UNCHANGED <<stored, remote, created, pending, w, base,
                   workflowID, result, loadedTinkID, createArgs, branch>>

\* Variant: the error of Get is not returned.
GetErrContinue ==
    /\ pc = "get"
    /\ Record("Get", "error")
    /\ pc' = "patchTinkID"
    /\ UNCHANGED <<stored, remote, created, pending, w, base, workflowID,
                   tinkWorkflow, result, loadedTinkID, createArgs, branch>>

\* reconcileNormal: Get fails (Not-Found or any other error).
GetErr ==
    /\ pc = "get"
    /\ Record("Get", "error")
    /\ result' = ErrResult
    /\ pc' = "done"
    /\ UNCHANGED <<stored, remote, created, pending, w, base,
                   workflowID, tinkWorkflow, loadedTinkID, createArgs, branch>>

\* reconcileNormal: the TinkID is recorded on the resource; reconcileStatus
\* then takes its patch basis and mirrors the data of the snapshot.
PatchTinkIDOK ==
    /\ pc = "patchTinkID" /\ stored.exists
    /\ stored' = MergePatch(stored, [w EXCEPT !.tinkID = workflowID], w)
    /\ pending' = (pending \/ stored' # stored)
    /\ base' = stored'.status
    /\ w' = [stored' EXCEPT !.status.Data = tinkWorkflow.Data]
    /\ Record("PatchTinkID", "ok")
    /\ pc' = "getMetadata"
    /\ UNCHANGED <<remote, created, workflowID, tinkWorkflow, result,
                   loadedTinkID, createArgs, branch>>

\* reconcileNormal: recording the TinkID fails.
PatchTinkIDErr ==
    /\ pc = "patchTinkID"
    /\ w' = [w EXCEPT !.tinkID = workflowID]
    /\ Record("PatchTinkID", "error")
    /\ result' = ErrResult
    /\ pc' = "done"
    /\ UNCHANGED <<stored, remote, created, pending, base, workflowID,
                   tinkWorkflow, loadedTinkID, createArgs, branch>>

\* reconcileStatus: GetMetadata returns the metadata.
GetMetadataOK ==
    /\ pc = "getMetadata" /\ RemoteExists(tinkWorkflow.Id)
    /\ w' = [w EXCEPT !.status.Metadata = RemoteMetadata(tinkWorkflow.Id)]
    /\ Record("GetMetadata", "ok")
    /\ pc' = "getActions"
    /\ UNCHANGED <<stored, remote, created, pending, base, workflowID,
                   tinkWorkflow, result, loadedTinkID, createArgs, branch>>

\* reconcileStatus: GetMetadata fails.
GetMetadataErr ==
    /\ pc = "getMetadata"
    /\ Record("GetMetadata", "error")
    /\ result' = ErrResult
    /\ pc' = AfterFetchError
    /\ UNCHANGED <<stored, remote, created, pending, w, base,
                   workflowID, tinkWorkflow, loadedTinkID, createArgs, branch>>

\* reconcileStatus: GetActions returns the actions, which are mapped.
GetActionsOK ==
    /\ pc = "getActions" /\ RemoteExists(tinkWorkflow.Id)
    /\ w' = [w EXCEPT !.status.Actions = StatusActions(RemoteActions(tinkWorkflow.Id))]
    /\ Record("GetActions", "ok")
    /\ pc' = "getEvents"
    /\ UNCHANGED <<stored, remote, created, pending, base, workflowID,
                   tinkWorkflow, result, loadedTinkID, createArgs, branch>>

\* Variant: the error of GetActions is logged and the sync goes on.
GetActionsErrContinue ==
    /\ pc = "getActions"
    /\ Record("GetActions", "error")
    /\ pc' = "getEvents"
    /\ UNCHANGED <<stored, remote, created, pending, w, base, workflowID,
                   tinkWorkflow, result, loadedTinkID, createArgs, branch>>

\* reconcileStatus: GetActions fails.
GetActionsErr ==
    /\ pc = "getActions"
    /\ Record("GetActions", "error")
    /\ result' = ErrResult
    /\ pc' = AfterFetchError
    /\ UNCHANGED <<stored, remote, created, pending, w, base,
                   workflowID, tinkWorkflow, loadedTinkID, createArgs, branch>>

\* reconcileStatus: GetEvents returns the events, which are mapped.
GetEventsOK ==
    /\ pc = "getEvents" /\ RemoteExists(tinkWorkflow.Id)
    /\ w' = [w EXCEPT !.status.Events =
                StatusEvents(RemoteEvents(remote[tinkWorkflow.Id]))]
    /\ Record("GetEvents", "ok")
    /\ pc' = "getState"
    /\ UNCHANGED <<stored, remote, created, pending, base, workflowID,
                   tinkWorkflow, result, loadedTinkID, createArgs, branch>>

\* reconcileStatus: GetEvents fails.
GetEventsErr ==
    /\ pc = "getEvents"
    /\ Record("GetEvents", "error")
    /\ result' = ErrResult
    /\ pc' = AfterFetchError
    /\ UNCHANGED <<stored, remote, created, pending, w, base,
                   workflowID, tinkWorkflow, loadedTinkID, createArgs, branch>>

\* reconcileStatus: GetState returns the state, which decides the requeue.
GetStateOK ==
    /\ pc = "getState" /\ RemoteExists(tinkWorkflow.Id)
    /\ w' = [w EXCEPT !.status.State = StateString(remote[tinkWorkflow.Id])]
    /\ Record("GetState", StateString(remote[tinkWorkflow.Id]))
    /\ result' = StatusResult(remote[tinkWorkflow.Id])
    /\ pc' = "statusPatch"
    /\ UNCHANGED <<stored, remote, created, pending, base, workflowID,
                   tinkWorkflow, loadedTinkID, createArgs, branch>>

\* reconcileStatus: GetState fails.
GetStateErr ==
    /\ pc = "getState"
    /\ Record("GetState", "error")
    /\ result' = ErrResult
    /\ pc' = AfterFetchError
    /\ UNCHANGED <<stored, remote, created, pending, w, base,
                   workflowID, tinkWorkflow, loadedTinkID, createArgs, branch>>

\* reconcileStatus, deferred: the status gathered so far is patched.
StatusPatchOK ==
    /\ pc = "statusPatch" /\ stored.exists
    /\ stored' = [stored EXCEPT !.status = MergeStatusPatch(@, w.status, base)]
    /\ w' = stored'
    /\ pending' = (pending \/ stored' # stored)
    /\ Record("PatchStatus", "ok")
    /\ pc' = "done"
    /\ UNCHANGED <<remote, created, base, workflowID, tinkWorkflow,
                   result, loadedTinkID, createArgs, branch>>

\* reconcileStatus, deferred: the status patch fails, which is only logged.
StatusPatchErr ==
    /\ pc = "statusPatch"
    /\ Record("PatchStatus", "error")
    /\ pc' = "done"
    /\ UNCHANGED <<stored, remote, created, pending, w, base,
                   workflowID, tinkWorkflow, result, loadedTinkID, createArgs, branch>>

\* reconcileDelete: Delete removes the remote execution.
DeleteOK ==
    /\ pc = "delete" /\ RemoteExists(w.tinkID)
    /\ remote' = [remote EXCEPT ![w.tinkID] = Absent]
    /\ Record("Delete", "ok")
    /\ pc' = AfterDelete("ok")
    /\ result' = IF pc' = "done" THEN ErrResult ELSE result
    /\ UNCHANGED <<stored, created, pending, w, base, workflowID,
                   tinkWorkflow, loadedTinkID, createArgs, branch>>

\* reconcileDelete: Delete reports that the remote execution is not found.
DeleteNotFound ==
    /\ pc = "delete" /\ ~RemoteExists(w.tinkID)
    /\ Record("Delete", "notfound")
    /\ pc' = AfterDelete("notfound")
    /\ result' = IF pc' = "done" THEN ErrResult ELSE result
    /\ UNCHANGED <<stored, remote, created, pending, w, base,
                   workflowID, tinkWorkflow, loadedTinkID, createArgs, branch>>

\* reconcileDelete: Delete fails with another error.
DeleteErr ==
    /\ pc = "delete"
    /\ Record("Delete", "error")
    /\ pc' = AfterDelete("error")
    /\ result' = IF pc' = "done" THEN ErrResult ELSE result
    /\ UNCHANGED <<stored, remote, created, pending, w, base,
                   workflowID, tinkWorkflow, loadedTinkID, createArgs, branch>>

\* reconcileDelete: the finalizer marker is removed and the removal persisted.
RemoveFinalizerOK ==
    /\ pc = "removeFinalizer" /\ stored.exists
    /\ stored' = MergePatch(stored, [w EXCEPT !.finalizer = FALSE], w)
    /\ w' = stored'
    /\ pending' = (pending \/ stored' # stored)
    /\ Record("PatchRemoveFinalizer", "ok")
    /\ result' = OkResult
    /\ pc' = "done"
    /\ UNCHANGED <<remote, created, base, workflowID, tinkWorkflow,
                   loadedTinkID, createArgs, branch>>

\* reconcileDelete: persisting the removal fails.
RemoveFinalizerErr ==
    /\ pc = "removeFinalizer"
    /\ w' = [w EXCEPT !.finalizer = FALSE]
    /\ Record("PatchRemoveFinalizer", "error")
    /\ result' = ErrResult
    /\ pc' = "done"
    /\ UNCHANGED <<stored, remote, created, pending, base, workflowID,
                   tinkWorkflow, loadedTinkID, createArgs, branch>>

\* Reconcile returns to the controller: an error or a requeue delay re-queues
\* the request (the length of the delay is not modelled), and the
\* invocation's locals are gone.
Return ==
    /\ pc = "done"
    /\ pending' = (pending \/ result.err \/ result.requeueAfter > 0)
    /\ pc' = "idle"
    /\ w' = NewWorkflow
    /\ base' = EmptyStatus
    /\ workflowID' = NoID
    /\ tinkWorkflow' = NoWorkflow
    /\ result' = OkResult
    /\ calls' = <<>>
    /\ loadedTinkID' = NoID
    /\ createArgs' = <<>>
    /\ branch' = "none"
    /\ UNCHANGED <<stored, remote, created>>

----------------------------------------------------------------------------
\* The environment

locals == <<pc, w, base, workflowID, tinkWorkflow, result, calls,
            loadedTinkID, createArgs, branch>>

\* The user asks the store to delete the resource.
RequestDeletion ==
    /\ stored.exists /\ ~stored.deletion
    /\ stored' = [stored EXCEPT !.deletion = TRUE]
    /\ pending' = TRUE
    /\ UNCHANGED <<remote, created, locals>>

\* The store removes a resource under deletion that carries no finalizer.
StoreRemove ==
    /\ stored.exists /\ stored.deletion
    /\ ~stored.finalizer /\ ~stored.otherFinalizer
    /\ stored' = [NewWorkflow EXCEPT !.exists = FALSE]
    /\ pending' = TRUE
    /\ UNCHANGED <<remote, created, locals>>

\* The remote service runs an execution.
RemoteAdvance ==
    \E id \in IDs, s \in States :
        /\ \/ remote[id] = STATE_PENDING /\ s = STATE_RUNNING
           \/ remote[id] = STATE_RUNNING
              /\ s \in {STATE_FAILED, STATE_TIMEOUT, STATE_SUCCESS}
        /\ remote' = [remote EXCEPT ![id] = s]
        /\ UNCHANGED <<stored, created, pending, locals>>

\* An execution is removed from the remote service by someone else.
RemoteRemove ==
    \E id \in IDs :
        /\ remote[id] # Absent
        /\ remote' = [remote EXCEPT ![id] = Absent]
        /\ UNCHANGED <<stored, created, pending, locals>>

\* An event for the resource arrives on the workflow channel.
ChannelEvent ==
    /\ ~pending
    /\ pending' = TRUE
    /\ UNCHANGED <<stored, remote, created, locals>>

----------------------------------------------------------------------------
Reconciler ==
    \/ ReconcileGetOK \/ ReconcileGetNotFound \/ ReconcileGetErr
    \/ EnsureFinalizerPresent \/ EnsureFinalizerOK \/ EnsureFinalizerErr
    \/ GetHardwareOK \/ GetHardwareErr \/ GetTemplateOK \/ GetTemplateErr
    \/ CreateOK \/ CreateErr \/ GetOK \/ GetErr
    \/ PatchTinkIDOK \/ PatchTinkIDErr
    \/ GetMetadataOK \/ GetMetadataErr \/ GetActionsOK \/ GetActionsErr
    \/ GetEventsOK \/ GetEventsErr \/ GetStateOK \/ GetStateErr
    \/ StatusPatchOK \/ StatusPatchErr
    \/ DeleteOK \/ DeleteNotFound \/ DeleteErr
    \/ RemoveFinalizerOK \/ RemoveFinalizerErr
    \/ Return

Environment ==
    \/ RequestDeletion \/ StoreRemove \/ RemoteAdvance \/ RemoteRemove
    \/ ChannelEvent

Next == Reconciler \/ Environment

Spec == Init /\ [][Next]_vars

\* Another writer (a controller with a finalizer of its own) adds its
\* finalizer to the stored resource, or removes it.
OtherWriter ==
    /\ stored.exists
    /\ stored' = [stored EXCEPT !.otherFinalizer = ~@]
    /\ pending' = TRUE
    /\ UNCHANGED <<remote, created, locals>>

RaceNext == Next \/ OtherWriter

\* The reconciler next to another writer of the same resource.
RaceSpec == Init /\ [][RaceNext]_vars

----------------------------------------------------------------------------
\* Scheduling: the controller runs a queued request, and every call of an
\* invocation returns.
Fairness == WF_vars(Reconciler)

FairSpec == Spec /\ Fairness

\* The failures of the store and of the remote service that a retry can get
\* past on the way to the removal of the finalizer marker.
DeleteFailure ==
    ReconcileGetErr \/ EnsureFinalizerErr \/ DeleteErr \/ RemoveFinalizerErr

\* C10: if the load, the Delete call and the store patches eventually stop
\* failing, a resource under deletion eventually has its finalizer marker
\* removed in the store (after which the store removes the resource).
C10_EventualFinalizerRemoval ==
    (<>[][~DeleteFailure]_vars)
        => ((stored.exists /\ stored.deletion)
                ~> (~stored.exists \/ ~stored.finalizer))

\* Witness of C10: the delete path removed the remote execution and then
\* persisted the removal of the finalizer marker.
C10_Witness ==
    /\ pc = "done"
    /\ CalledWith("Delete", "ok")
    /\ CalledWith("PatchRemoveFinalizer", "ok")
    /\ stored.exists /\ stored.deletion /\ ~stored.finalizer

----------------------------------------------------------------------------
\* Properties of one invocation and of the states between invocations

FetchOps == {"GetMetadata", "GetActions", "GetEvents", "GetState"}

\* C1: an invocation that loaded a resource with a recorded TinkID does not
\* call Create, whatever has become of the remote execution.
C1_IdempotentCreation ==
    (pc # "idle" /\ loadedTinkID # NoID) => ~Called("Create")

\* Witness of C1: such an invocation ran the normal path although the remote
\* execution no longer exists.
C1_Witness ==
    /\ pc = "done"
    /\ loadedTinkID # NoID
    /\ ~RemoteExists(loadedTinkID)
    /\ CalledWith("Get", "error")

\* C2: Create succeeds at most once for the resource.
C2_CreateAtMostOnce == created <= 1

\* C3: when the delete path has persisted the removal of the finalizer
\* marker, no remote execution created for the resource exists any more.
C3_NoOrphan ==
    (pc = "done" /\ CalledWith("PatchRemoveFinalizer", "ok"))
        => \A id \in IDs : remote[id] = Absent

\* C4: Create is called only with the finalizer marker persisted in the
\* store, and an invocation whose EnsureFinalizer failed returns an error
\* without calling Create.
C4_FinalizerBeforeCreate ==
    /\ Called("Create") => (stored.exists /\ stored.finalizer)
    /\ CalledWith("PatchFinalizer", "error")
           => (pc = "done" /\ result = ErrResult /\ ~Called("Create"))

\* Witness of C4: the marker was added in the invocation that created the
\* remote execution and recorded its id.
C4_Witness ==
    /\ CalledWith("PatchFinalizer", "ok")
    /\ CalledWith("Create", "ok")
    /\ stored.tinkID # NoID

\* C5: the delete path gets to removing the finalizer marker only for an
\* empty TinkID or after Delete returned success or Not-Found; after any
\* other error of Delete it returns an error, issues no patch and the marker
\* stays in the store.
C5_RemovalGuarded ==
    /\ (pc = "removeFinalizer" \/ Called("PatchRemoveFinalizer"))
           => \/ loadedTinkID = NoID
              \/ CalledWith("Delete", "ok")
              \/ CalledWith("Delete", "notfound")
    /\ CalledWith("Delete", "error")
           => /\ pc = "done"
              /\ result = ErrResult
              /\ ~Called("PatchRemoveFinalizer")
              /\ stored.exists /\ stored.finalizer

\* Witness of C5: Delete failed with an error other than Not-Found.
C5_Witness ==
    /\ pc = "done"
    /\ CalledWith("Delete", "error")
    /\ RemoteExists(loadedTinkID)

\* C6: every run of the delete path on a resource with a recorded TinkID
\* whose remote execution is gone leaves the resource without the finalizer
\* marker and, the store accepting the patch, returns success without
\* requeue with the marker removed in the store.
C6_SafeDoubleDelete ==
    (pc = "done" /\ loadedTinkID # NoID /\ CalledWith("Delete", "notfound"))
        => /\ ~w.finalizer
           /\ result.requeueAfter = 0
           /\ result.err = CalledWith("PatchRemoveFinalizer", "error")
           /\ ~result.err => (stored.exists => ~stored.finalizer)

\* Witness of C6: a further run, on a resource whose marker had already been
\* removed once (the run had to add it again), succeeds again.
C6_Witness ==
    /\ pc = "done"
    /\ loadedTinkID # NoID
    /\ CalledWith("PatchFinalizer", "ok")
    /\ CalledWith("Delete", "notfound")
    /\ CalledWith("PatchRemoveFinalizer", "ok")
    /\ result = OkResult
    /\ ~stored.finalizer

\* C7: once GetState returned, the invocation returns without error, with a
\* requeue after exactly one minute unless the state is STATE_SUCCESS, and
\* with no requeue if it is.
C7_RequeueUntilSuccess ==
    \A s \in States :
        (pc \in {"statusPatch", "done"} /\ CalledWith("GetState", StateString(s)))
            => /\ ~result.err
               /\ result.requeueAfter = IF s = STATE_SUCCESS THEN 0 ELSE 60

\* Witness of C7: a failed execution is requeued.
C7_Witness ==
    /\ pc = "done"
    /\ CalledWith("GetState", "STATE_FAILED")
    /\ result.requeueAfter = 60

\* C8: when a fetch of the status sync fails, the status patch is still
\* issued and the error returned; the patched status holds the mirrored data
\* and every field fetched before the failure.
C8_PartialStatusPreserved ==
    (pc = "done" /\ \E op \in FetchOps : CalledWith(op, "error"))
        => /\ Called("PatchStatus")
           /\ result = ErrResult
           /\ CalledWith("PatchStatus", "ok")
                  => /\ stored.status.Data = RemoteData(tinkWorkflow.Id)
                     /\ CalledWith("GetMetadata", "ok")
                            => stored.status.Metadata = RemoteMetadata(tinkWorkflow.Id)
                     /\ CalledWith("GetActions", "ok")
                            => stored.status.Actions
                                   = StatusActions(RemoteActions(tinkWorkflow.Id))
                     /\ CalledWith("GetEvents", "ok")
                            => \E s \in States :
                                   stored.status.Events = StatusEvents(RemoteEvents(s))

\* Witness of C8: the first status sync of a resource fetched the actions,
\* failed to fetch the events, and the patch put the actions into the store.
C8_Witness ==
    /\ pc = "done"
    /\ base = EmptyStatus
    /\ CalledWith("GetActions", "ok")
    /\ CalledWith("GetEvents", "error")
    /\ CalledWith("PatchStatus", "ok")
    /\ stored.status.Actions # <<>>
    /\ stored.status.Events = <<>>

\* C9: between invocations the TinkID of the resource is set if and only if
\* a Create call has returned successfully.
C9_TinkIDIffCreated ==
    (pc = "idle" /\ stored.exists) => (stored.tinkID # NoID <=> created > 0)

----------------------------------------------------------------------------
\* Properties of the status sync, the error handling and the two paths

\* The status the reconciler derives from the remote execution id as the
\* remote service holds it now.
MappedStatus(id) ==
    [State |-> StateString(remote[id]),
     Data |-> RemoteData(id),
     Metadata |-> RemoteMetadata(id),
     Actions |-> StatusActions(RemoteActions(id)),
     Events |-> StatusEvents(RemoteEvents(remote[id]))]

\* C11: the persisted status does not stay stale.  Stated on the states in
\* which the loop has come to rest for a resource with a recorded TinkID that
\* is not being deleted (no invocation in flight, none queued by an error, a
\* requeue delay or a change of the resource): there no result of Reconcile
\* calls for another pass, so the status must equal the mapping of the remote
\* execution.
C11_StatusConverges ==
    (/\ pc = "idle" /\ ~pending
     /\ stored.exists /\ ~stored.deletion
     /\ stored.tinkID # NoID /\ RemoteExists(stored.tinkID))
        => stored.status = MappedStatus(stored.tinkID)

\* C12: an invocation in which a store operation or a remote call failed
\* returns an error.
C12_ErrorsSurfaced ==
    (pc = "done" /\ \E i \in 1..Len(calls) : calls[i].res = "error")
        => result.err

\* C13: an invocation for a resource the store does not find returns success
\* without requeue and makes no other call, neither remote nor to the store.
C13_MissingResourceNoError ==
    CalledWith("Load", "notfound")
        => (pc = "done" /\ result = OkResult /\ Len(calls) = 1)

\* Witness of C13: the resource is gone after its remote execution was
\* created and deleted.
C13_Witness ==
    /\ pc = "done"
    /\ CalledWith("Load", "notfound")
    /\ ~stored.exists
    /\ created > 0

TerminalStates == {STATE_FAILED, STATE_TIMEOUT, STATE_SUCCESS}

\* C14 as claimed: once the state fetched is one the execution cannot leave
\* (failed, timed out or success), no requeue is requested.
C14_RequeueEndsAtTerminal ==
    \A s \in TerminalStates :
        (pc = "done" /\ CalledWith("GetState", StateString(s)))
            => result.requeueAfter = 0

\* C14 as amended: when Reconcile returns after it fetched STATE_SUCCESS, it
\* queues no further pass; after STATE_FAILED or STATE_TIMEOUT it does.
C14_RequeueEndsAtSuccess ==
    [][(pc = "done" /\ pc' = "idle")
           => /\ CalledWith("GetState", "STATE_SUCCESS") => pending' = pending
              /\ (\/ CalledWith("GetState", "STATE_FAILED")
                  \/ CalledWith("GetState", "STATE_TIMEOUT")) => pending']_vars

\* Witness of C14: a pass over a successful execution ends with nothing queued.
C14_Witness ==
    /\ pc = "done"
    /\ CalledWith("GetState", "STATE_SUCCESS")
    /\ result = OkResult
    /\ ~pending

\* C15: a TinkID in the store keeps its value for as long as the resource
\* exists.
C15_TinkIDWriteOnce ==
    [][(stored.exists /\ stored.tinkID # NoID /\ stored'.exists)
           => stored'.tinkID = stored.tinkID]_vars

\* Witness of C15: a later pass has patched the TinkID again, with its value.
C15_Witness ==
    /\ loadedTinkID # NoID
    /\ CalledWith("PatchTinkID", "ok")
    /\ stored.tinkID = loadedTinkID

FetchOrder == <<"GetMetadata", "GetActions", "GetEvents", "GetState">>

\* The status field each fetch fills, in the order of the fetches.
StatusField == <<"Metadata", "Actions", "Events", "State">>

IsFetch(c) == c.op \in FetchOps

\* C16: the fetches of one pass are issued in the order GetMetadata,
\* GetActions, GetEvents, GetState, after Get; only the last one issued can
\* have failed, and then its status field and those of the later fetches are
\* as they were read.
C16_FetchOrder ==
    LET f == SelectSeq(calls, IsFetch)
        n == Len(f)
    IN  /\ n <= Len(FetchOrder)
        /\ \A i \in 1..n :
               /\ f[i].op = FetchOrder[i]
               /\ i < n => f[i].res = "ok"
        /\ n > 0 => \E j \in 1..Len(calls) :
                        /\ calls[j] = Call("Get", "ok")
                        /\ \A k \in 1..j : ~IsFetch(calls[k])
        /\ (pc \in {"statusPatch", "done"} /\ n > 0 /\ f[n].res = "error")
               => \A i \in n..Len(FetchOrder) :
                      w.status[StatusField[i]] = base[StatusField[i]]

\* Witness of C16: GetActions failed in a pass over a resource whose status
\* had been synced before; events and state stay as they were.
C16_Witness ==
    /\ pc = "done"
    /\ CalledWith("GetMetadata", "ok")
    /\ CalledWith("GetActions", "error")
    /\ ~Called("GetEvents") /\ ~Called("GetState")
    /\ base.State # "" /\ base.Events # <<>>
    /\ w.status.State = base.State /\ w.status.Events = base.Events

\* The positions of Reconcile at which it issues the TinkID patch, the status
\* patch or the patch that removes the finalizer.
PatchPcs == {"patchTinkID", "statusPatch", "removeFinalizer"}

\* The store holds a newer resource than the one Reconcile read.
StaleRead ==
    \/ w.deletion # stored.deletion
    \/ w.otherFinalizer # stored.otherFinalizer

\* C17: a patch issued on an outdated read is rejected and leaves the stored
\* resource as the other writer left it.
C17_NoStaleOverwrite ==
    [][(pc \in PatchPcs /\ StaleRead /\ calls' # calls)
           => /\ calls'[Len(calls')].res = "error"
              /\ stored' = stored]_vars

RemoteOps ==
    {"Create", "Get", "GetMetadata", "GetActions", "GetEvents", "GetState", "Delete"}

\* C18: when the Hardware or the Template cannot be loaded, Reconcile returns
\* an error, makes no remote call and leaves TinkID and status as they were;
\* when both are loaded, Create is called once, with the template id and the
\* hardware id in this order.
C18_MissingReference ==
    /\ (CalledWith("GetHardware", "error") \/ CalledWith("GetTemplate", "error"))
           => /\ pc = "done"
              /\ result = ErrResult
              /\ \A i \in 1..Len(calls) : calls[i].op \notin RemoteOps
              /\ loadedTinkID = NoID
              /\ stored.tinkID = NoID
              /\ stored.status = w.status
    /\ (CalledWith("GetTemplate", "ok") /\ pc # "create")
           => /\ Cardinality({i \in 1..Len(calls) : calls[i].op = "Create"}) = 1
              /\ createArgs = <<"T1", "H1">>

\* Witness of C18: the Hardware was loaded, the Template was not.
C18_Witness ==
    /\ pc = "done"
    /\ CalledWith("GetHardware", "ok")
    /\ CalledWith("GetTemplate", "error")

\* C19: when Get fails, Reconcile returns an error without requeue delay and
\* issues neither the TinkID patch nor the status patch; TinkID and status in
\* the store are as they were loaded.
C19_NothingPersistedOnGetError ==
    CalledWith("Get", "error")
        => /\ pc = "done"
           /\ result = ErrResult
           /\ ~Called("PatchTinkID")
           /\ ~Called("PatchStatus")
           /\ stored.tinkID = loadedTinkID
           /\ stored.status = w.status

\* Witness of C19: Get failed in the pass in which Create had just succeeded.
C19_Witness ==
    /\ pc = "done"
    /\ CalledWith("Create", "ok")
    /\ CalledWith("Get", "error")
    /\ RemoteExists(workflowID)

\* C20: a pass on the delete path calls none of Create, Get and the fetches
\* and leaves TinkID and status alone; a pass on the normal path does not
\* call Delete and does not remove the finalizer marker.
C20_PathsDisjoint ==
    /\ branch = "delete"
           => /\ \A i \in 1..Len(calls) :
                     calls[i].op \notin (RemoteOps \ {"Delete"})
              /\ ~Called("PatchTinkID") /\ ~Called("PatchStatus")
              /\ stored.exists
                     => (stored.tinkID = loadedTinkID /\ stored.status = w.status)
    /\ branch = "normal"
           => /\ ~Called("Delete")
              /\ ~Called("PatchRemoveFinalizer")
              /\ stored.exists /\ stored.finalizer

\* Witness of C20: the delete path ran to its end on a resource whose status
\* had been synced.
C20_Witness ==
    /\ pc = "done"
    /\ branch = "delete"
    /\ CalledWith("Delete", "ok")
    /\ CalledWith("PatchRemoveFinalizer", "ok")
    /\ stored.exists /\ stored.status.State # ""

====
